---- MODULE Spec2Model ----
(***************************************************************************)
(* A model of the incomplete-label-distribution-learning core of PyLDL:    *)
(*   pyldl/algorithms/utils.py        proj, binaryzation, RProp            *)
(*   pyldl/algorithms/_incomplete.py  IncomLDL, WInLDL                     *)
(* Each part has its own specification (SpecProj, SpecBin, SpecRProp,      *)
(* SpecQP, Spec); a specification leaves the other parts' variables alone. *)
(***************************************************************************)
EXTENDS Integers, Sequences, FiniteSets, TLC

VARIABLES
    \* ---- utils.proj / WInLDL.proj
    pj_Y,        \* the input matrix (a sequence of rows of floats)
    pj_out,      \* proj(Y)
    pj_out2,     \* proj(proj(Y))
    pj_pc,       \* "in" | "once" | "twice"
    \* ---- utils.binaryzation
    bz_y,        \* the input matrix
    bz_method,   \* the method argument
    bz_param,    \* the param argument, a tagged Python value
    bz_res,      \* the returned matrix (empty when none)
    bz_pc,       \* "called" | "returned" | "ValueError"
    \* ---- utils.RProp
    rp_param,    \* the trainable variable, one entry per parameter
    rp_grad,     \* the gradients of the latest apply_gradients call
    rp_last,     \* what the latest call wrote: [alpha, old_grad, prev_weight_delta]
    rp_before,   \* what the call before it wrote
    rp_calls,    \* the number of apply_gradients calls made
    \* ---- IncomLDL._update_W, its rows solved in any order
    qp_in,       \* the attributes read: _X, _y, _mask, _Z, _V, _rho
    qp_M,        \* M, one row per sample
    qp_solved,   \* the samples whose quadratic program was solved
    qp_W,        \* self._W once assigned, <<>> before
    \* ---- a model instance (IncomLDL or WInLDL) and its fit calls
    cls,         \* the instance's class
    self,        \* the instance's attributes
    phase,       \* "Uninitialized" | "Iterating" | "Done"
    pc,          \* the sub-update due next in the cycle: "W" | "Z" | "V"
    outcome,     \* how the latest fit call began: "ok" | "InvalidInput"
    pre,         \* the attributes as they were when the latest fit call was made
    Qprev        \* WInLDL: self._Q as it was before the latest _update_Q

projVars == <<pj_Y, pj_out, pj_out2, pj_pc>>

binVars == <<bz_y, bz_method, bz_param, bz_res, bz_pc>>

rpVars == <<rp_param, rp_grad, rp_last, rp_before, rp_calls>>

qpVars == <<qp_in, qp_M, qp_solved, qp_W>>

fitVars == <<cls, self, phase, pc, outcome, pre, Qprev>>

vars == <<projVars, binVars, rpVars, qpVars, fitVars>>

\* A part that a specification does not run stays idle.
ProjIdle ==
    /\ pj_Y = <<>>
    /\ pj_out = <<>>
    /\ pj_out2 = <<>>
    /\ pj_pc = "idle"

BinIdle ==
    /\ bz_y = <<>>
    /\ bz_method = "none"
    /\ bz_param = <<>>
    /\ bz_res = <<>>
    /\ bz_pc = "idle"

RPropIdle ==
    /\ rp_param = <<>>
    /\ rp_grad = <<>>
    /\ rp_last = <<>>
    /\ rp_before = <<>>
    /\ rp_calls = -1

QPIdle ==
    /\ qp_in = <<>>
    /\ qp_M = <<>>
    /\ qp_solved = {}
    /\ qp_W = <<"idle">>

FitIdle ==
    /\ cls = "none"
    /\ self = <<>>
    /\ phase = "idle"
    /\ pc = "-"
    /\ outcome = "none"
    /\ pre = <<>>
    /\ Qprev = <<>>

----------------------------------------------------------------------------
(* Generic helpers *)

Abs(x) == IF x < 0 THEN -x ELSE x

Max(a, b) == IF a >= b THEN a ELSE b

Min(a, b) == IF a <= b THEN a ELSE b

RECURSIVE Pow2(_)
Pow2(e) == IF e <= 0 THEN 1 ELSE 2 * Pow2(e - 1)

RECURSIVE GCD(_, _)
GCD(a, b) == IF b = 0 THEN a ELSE GCD(b, a % b)

\* A rational number n/d in lowest terms, d > 0.
Rat(n, d) == LET g == GCD(Abs(n), d) IN <<n \div g, d \div g>>

RatAdd(a, b) == Rat(a[1] * b[2] + b[1] * a[2], a[2] * b[2])

RatScale(k, a) == Rat(k * a[1], a[2])

RECURSIVE SumSeq(_)
SumSeq(s) == IF s = <<>> THEN 0 ELSE Head(s) + SumSeq(Tail(s))

\* The permutations of 1..n, as functions.
Perms(n) == {p \in [1..n -> 1..n] : \A i, j \in 1..n : i # j => p[i] # p[j]}

----------------------------------------------------------------------------
(* Binary floating point, as numpy's float64 arrays compute, in a format   *)
(* of Prec significand bits.  A float is an integer count of quanta: one   *)
(* quantum is 2^-FracBits, so 1.0 is the integer One.  Below 2^Prec quanta *)
(* every integer is a float (the subnormal range); above, a float is       *)
(* m * 2^e with m < 2^Prec.  Every arithmetic result is rounded to the     *)
(* nearest float, ties to even, as IEEE 754 does.                          *)

Prec == 4

FracBits == 3

One == Pow2(FracBits)

\* The nearest integer to a/b (b > 0), ties to the even one.
RoundDiv(a, b) ==
    LET f == a \div b
        r == a % b
    IN  IF 2 * r < b THEN f
        ELSE IF 2 * r > b THEN f + 1
        ELSE IF f % 2 = 0 THEN f ELSE f + 1

\* The least e >= 0 with mag < 2^(Prec + e): the binade of a magnitude.
RECURSIVE Binade(_, _)
Binade(mag, e) == IF mag < Pow2(Prec + e) THEN e ELSE Binade(mag, e + 1)

\* The float nearest to the real a/b, b > 0.
Fl(a, b) ==
    LET e == Binade(Abs(a) \div b, 0)
    IN  RoundDiv(a, b * Pow2(e)) * Pow2(e)

IsFloat(x) == Fl(x, 1) = x

FAdd(x, y) == Fl(x + y, 1)

FSub(x, y) == Fl(x - y, 1)

FDiv(x, k) == Fl(x, k)

----------------------------------------------------------------------------
(* utils.proj (utils.py 15-20), the same code as WInLDL.proj               *)
(* (_incomplete.py 50-57), row by row.                                     *)

\* -np.sort(-Y, axis=1): the row in descending order.
RECURSIVE SortDesc(_)
SortDesc(row) ==
    IF row = <<>> THEN <<>>
    ELSE LET i == CHOOSE k \in 1..Len(row) : \A j \in 1..Len(row) : row[k] >= row[j]
         IN  <<row[i]>> \o SortDesc([k \in 1..(Len(row) - 1) |->
                                        IF k < i THEN row[k] ELSE row[k + 1]])

\* np.cumsum(X, axis=1): a running float sum, left to right.
RECURSIVE CumSum(_)
CumSum(X) ==
    IF Len(X) <= 1 THEN X
    ELSE LET c == CumSum(SubSeq(X, 1, Len(X) - 1))
         IN  Append(c, FAdd(c[Len(c)], X[Len(X)]))

\* (np.cumsum(X, axis=1) - 1) / np.arange(1, Y.shape[1] + 1)
XtmpOf(X) ==
    LET c == CumSum(X)
    IN  [k \in 1..Len(X) |-> FDiv(FSub(c[k], One), k)]

\* np.sum(X > Xtmp, axis=1) - 1, a 0-based index
RhoOf(X, Xtmp) == Cardinality({k \in 1..Len(X) : X[k] > Xtmp[k]}) - 1

\* Xtmp[np.arange(Y.shape[0]), rho]: a negative index counts from the end.
ThetaOf(Xtmp, rho) == IF rho >= 0 THEN Xtmp[rho + 1] ELSE Xtmp[Len(Xtmp) + rho + 1]

projRow(row) ==
    LET X     == SortDesc(row)
        Xtmp  == XtmpOf(X)
        rho   == RhoOf(X, Xtmp)
        theta == ThetaOf(Xtmp, rho)
    IN  [j \in 1..Len(row) |-> Max(FSub(row[j], theta), 0)]

proj(Y) == [i \in 1..Len(Y) |-> projRow(Y[i])]

----------------------------------------------------------------------------
(* utils.binaryzation (utils.py 23-46).  A Python argument is a tagged     *)
(* value; bool is a subclass of int, so isinstance(True, int) holds and    *)
(* True counts as 1.  Label values and float params are in units of        *)
(* 1/BinUnit.                                                              *)

BinCols == 3

\* Quarters: 1.0 is BinUnit.
BinUnit == Pow2(2)

PyNone == [t |-> "NoneType", v |-> 0]

PyInt(k) == [t |-> "int", v |-> k]

PyFloat(x) == [t |-> "float", v |-> x]

PyBool(b) == [t |-> "bool", v |-> IF b THEN 1 ELSE 0]

\* isinstance(param, int)
IsInstanceInt(p) == p.t \in {"int", "bool"}

\* isinstance(param, float)
IsInstanceFloat(p) == p.t = "float"

\* np.argsort(row): some permutation p that lists the indices in ascending
\* order of value (p[k] is the index of the k-th smallest); which one, among
\* equal values, is the sort routine's choice.
ArgSorts(row) ==
    {p \in Perms(Len(row)) : \A a, b \in 1..Len(row) : a < b => row[p[a]] <= row[p[b]]}

\* np.argsort(p) for a permutation p: its inverse, 0-based.
ArgSortOfPerm(p) == [j \in 1..Len(p) |-> (CHOOSE k \in 1..Len(p) : p[k] = j) - 1]

\* r = np.argsort(np.argsort(y)), for one row: one outcome per outcome of the
\* inner sort.
RankRows(row) == {ArgSortOfPerm(p) : p \in ArgSorts(row)}

\* np.sort(y.T, axis=0)[::-1], np.cumsum(b, axis=0), np.argmax(cs >= param, axis=0),
\* for one sample: the 0-based index of the first prefix of the descending row
\* whose sum reaches param, 0 when none does.
ThresholdM(row, param) ==
    LET b  == SortDesc(row)
        cs == [k \in 1..Len(b) |-> SumSeq(SubSeq(b, 1, k))]
        hit == {k \in 1..Len(b) : cs[k] >= param}
    IN  IF hit = {} THEN 0 ELSE (CHOOSE k \in hit : \A l \in hit : k <= l) - 1

\* np.where(r >= y.shape[1] - m.reshape(-1, 1) - 1, 1, 0)
thresholdResult(y, r, param) ==
    [i \in 1..Len(y) |-> [j \in 1..Len(y[i]) |->
        IF r[i][j] >= Len(y[i]) - ThresholdM(y[i], param) - 1 THEN 1 ELSE 0]]

topkResultOffByOne(y, r, k) ==
    [i \in 1..Len(y) |-> [j \in 1..Len(y[i]) |->
        IF r[i][j] > Len(y[i]) - k THEN 1 ELSE 0]]

\* np.where(r >= y.shape[1] - param, 1, 0)
topkResult(y, r, k) ==
    [i \in 1..Len(y) |-> [j \in 1..Len(y[i]) |->
        IF r[i][j] >= Len(y[i]) - k THEN 1 ELSE 0]]

Returns(m) == [raised |-> FALSE, value |-> m]

RaisesValueError == [raised |-> TRUE, value |-> <<>>]

\* The whole function: what it returns, or that it raises ValueError.  r is
\* computed first, whatever the method.
binaryzation(y, r, method, param) ==
    LET c == Len(y[1])
    IN  IF method = "threshold" THEN
            IF param = PyNone THEN Returns(thresholdResult(y, r, BinUnit \div 2))
            ELSE IF ~IsInstanceFloat(param) \/ param.v < 0 \/ param.v >= BinUnit
                 THEN RaisesValueError
            ELSE Returns(thresholdResult(y, r, param.v))
        ELSE IF method = "topk" THEN
            IF param = PyNone THEN Returns(topkResult(y, r, c \div 2))
            ELSE IF ~IsInstanceInt(param) \/ param.v < 1 \/ param.v >= c
                 THEN RaisesValueError
            ELSE Returns(topkResult(y, r, param.v))
        ELSE RaisesValueError

----------------------------------------------------------------------------
(* SpecBin: one call of binaryzation on a small matrix.                    *)

BinEntries == {0, 1, 2}

\* A second row, when the matrix has one: one without ties where the values
\* allow it, and one that is all ties.
BinSecondRows ==
    {[j \in 1..BinCols |-> Min(j - 1, 2)], [j \in 1..BinCols |-> 1]}

BinInputs ==
    {<<row>> : row \in [1..BinCols -> BinEntries]}
        \cup {<<row, second>> : row \in [1..BinCols -> BinEntries], second \in BinSecondRows}

BinParams ==
    {PyNone, PyBool(TRUE), PyBool(FALSE)}
        \cup {PyInt(k) : k \in -1..(BinCols + 1)}
        \cup {PyFloat(x) : x \in {-1, 0, 2, BinUnit}}

\* The calls made: every param under 'topk', a few under 'threshold' and
\* under a method that is neither.
BinCalls ==
    {<<"topk", p>> : p \in BinParams}
        \cup {<<"threshold", p>> : p \in {PyNone, PyInt(1), PyFloat(-1), PyFloat(0),
                                          PyFloat(2), PyFloat(BinUnit)}}
        \cup {<<"mean", p>> : p \in {PyNone, PyInt(1)}}

BinInit ==
    /\ bz_y \in BinInputs
    /\ \E call \in BinCalls : bz_method = call[1] /\ bz_param = call[2]
    /\ bz_res = <<>>
    /\ bz_pc = "called"
    /\ ProjIdle
    /\ RPropIdle
    /\ QPIdle
    /\ FitIdle

Binaryze ==
    /\ bz_pc = "called"
    /\ \E r1 \in RankRows(bz_y[1]) : \E r2 \in RankRows(bz_y[Len(bz_y)]) :
          LET r   == IF Len(bz_y) = 1 THEN <<r1>> ELSE <<r1, r2>>
              res == binaryzation(bz_y, r, bz_method, bz_param)
          IN  /\ bz_res' = res.value
              /\ bz_pc' = IF res.raised THEN "ValueError" ELSE "returned"
    /\ UNCHANGED <<bz_y, bz_method, bz_param, projVars, rpVars, qpVars, fitVars>>

BinNext == Binaryze

SpecBin == BinInit /\ [][BinNext]_vars

----------------------------------------------------------------------------
(* utils.RProp (utils.py 66-115).  Step sizes and parameters are in        *)
(* millionths; scale_up = 1.2 and scale_down = 0.5 are the fractions       *)
(* ScaleUpNum/ScaleUpDen and ScaleDownNum/ScaleDownDen.                    *)

InitAlpha == 1000

MinAlpha == 1

MaxAlpha == 50000000

ScaleUpNum == 6

ScaleUpDen == 5

ScaleDownNum == 1

ScaleDownDen == 2

\* alpha * self.scale_up
ScaleUp(alpha) == (alpha * ScaleUpNum) \div ScaleUpDen

\* alpha * self.scale_down
ScaleDown(alpha) == (alpha * ScaleDownNum) \div ScaleDownDen

\* The loop body of get_updates for one entry (utils.py 92-113): the values
\* handed to K.update for param, alpha, old_grad and prev_weight_delta.
RPropEntry(param, grad, old_grad, prev_weight_delta, alpha) ==
    LET new_alpha ==
            IF grad * old_grad > 0 THEN Min(ScaleUp(alpha), MaxAlpha)
            ELSE IF grad * old_grad < 0 THEN Max(ScaleDown(alpha), MinAlpha)
            ELSE alpha
        new_delta ==
            IF grad > 0 THEN -new_alpha
            ELSE IF grad < 0 THEN new_alpha
            ELSE 0
        weight_delta == IF grad * old_grad < 0 THEN -prev_weight_delta ELSE new_delta
    IN  [param             |-> param + weight_delta,
         alpha             |-> new_alpha,
         old_grad          |-> IF grad * old_grad < 0 THEN 0 ELSE grad,
         prev_weight_delta |-> weight_delta]

\* get_updates(params, gradients) (utils.py 80-115): alphas, old_grads and
\* prev_weight_deltas are created anew by every call (lines 83-85), so each
\* entry starts from init_alpha, a zero old gradient and a zero previous delta.
get_updates(params, gradients) ==
    [k \in 1..Len(params) |-> RPropEntry(params[k], gradients[k], 0, 0, InitAlpha)]

----------------------------------------------------------------------------
(* SpecRProp: successive apply_gradients calls on one optimizer.           *)

NParams == 2

MaxCalls == 3

Gradients == {-1, 0, 1}

RPropInit ==
    /\ rp_param = [k \in 1..NParams |-> 0]
    /\ rp_grad = <<>>
    /\ rp_last = <<>>
    /\ rp_before = <<>>
    /\ rp_calls = 0
    /\ ProjIdle
    /\ BinIdle
    /\ QPIdle
    /\ FitIdle

\* apply_gradients(grads_and_vars) (utils.py 76-78)
apply_gradients ==
    /\ rp_calls < MaxCalls
    /\ \E grads \in [1..NParams -> Gradients] :
          LET updates == get_updates(rp_param, grads)
          IN  /\ rp_param' = [k \in 1..NParams |-> updates[k].param]
              /\ rp_grad' = grads
              /\ rp_last' = [k \in 1..NParams |->
                                [alpha |-> updates[k].alpha,
                                 old_grad |-> updates[k].old_grad,
                                 prev_weight_delta |-> updates[k].prev_weight_delta]]
    /\ rp_before' = rp_last
    /\ rp_calls' = rp_calls + 1
    /\ UNCHANGED <<projVars, binVars, qpVars, fitVars>>

RPropNext == apply_gradients

SpecRProp == RPropInit /\ [][RPropNext]_vars

----------------------------------------------------------------------------
(* IncomLDL._update_W (_incomplete.py 18-34).  Label values, Z and V are   *)
(* in units of 1/QPUnit; a solution of a row's quadratic program is a      *)
(* vector of rationals in the same unit.                                   *)

\* Halves: 1.0 is QPUnit.
QPUnit == Pow2(1)

RECURSIVE ProdOver(_, _)
ProdOver(S, f) ==
    IF S = {} THEN 1
    ELSE LET j == CHOOSE k \in S : TRUE IN f[j] * ProdOver(S \ {j}, f)

RECURSIVE SumOver(_, _)
SumOver(S, f) ==
    IF S = {} THEN 0
    ELSE LET j == CHOOSE k \in S : TRUE IN f[j] + SumOver(S \ {j}, f)

\* The diagonal of P: (1 + rho) * mask[i] + rho * (1 - mask[i])  (line 28)
IncomLDL_P(i, mask, rho) ==
    [j \in 1..Len(mask[i]) |-> (1 + rho) * mask[i][j] + rho * (1 - mask[i][j])]

IncomLDL_q_FirstRowZ(i, mask, y, Z, V, rho) ==
    [j \in 1..Len(mask[i]) |->
        (V[i][j] - y[i][j] * mask[i][j] - rho * Z[1][j]) * mask[i][j]
            + (V[i][j] - rho * Z[1][j]) * (1 - mask[i][j])]

\* q = ql + qr  (lines 29-31)
IncomLDL_q(i, mask, y, Z, V, rho) ==
    [j \in 1..Len(mask[i]) |->
        (V[i][j] - y[i][j] * mask[i][j] - rho * Z[i][j]) * mask[i][j]
            + (V[i][j] - rho * Z[i][j]) * (1 - mask[i][j])]

\* solve_qp(P, q, G, h, A, b): the minimiser of 1/2 z'Pz + q'z over z >= 0,
\* sum(z) = 1, for a diagonal positive P.  With support S and multiplier
\* lambda, z_j = (-q_j - lambda) / p_j on S and 0 off it; lambda is fixed by
\* sum(z) = 1, and S is the support for which z >= 0 on S and
\* -q_j - lambda <= 0 off S (the Karush-Kuhn-Tucker conditions).
solve_qp(P, q) ==
    LET L == 1..Len(P)
        D(S) == ProdOver(S, P)
        A(S) == SumOver(S, [j \in L |-> ProdOver(S \ {j}, P)])
        B(S) == SumOver(S, [j \in L |-> q[j] * ProdOver(S \ {j}, P)])
        \* (-q_j - lambda) * A(S)
        Slack(S, j) == B(S) + QPUnit * D(S) - q[j] * A(S)
        Optimal(S) ==
            /\ S # {}
            /\ \A j \in S : Slack(S, j) >= 0
            /\ \A j \in L \ S : Slack(S, j) <= 0
        S0 == CHOOSE S \in SUBSET L : Optimal(S)
    IN  [j \in L |-> IF j \in S0 THEN Rat(Slack(S0, j), P[j] * A(S0)) ELSE Rat(0, 1)]

\* The body of the loop for sample i (lines 28-32): the value stored in M[i].
IncomLDL_row(i, in) ==
    solve_qp(IncomLDL_P(i, in.mask, in.rho),
             IncomLDL_q(i, in.mask, in.y, in.Z, in.V, in.rho))

\* M = np.zeros_like(self._y)  (line 25)
ZerosLike(y) == [i \in 1..Len(y) |-> [j \in 1..Len(y[i]) |-> Rat(0, 1)]]

\* The loop of lines 27-32, run in order for i = 1..n.
RECURSIVE IncomLDL_loop(_, _)
IncomLDL_loop(n, in) ==
    IF n = 0 THEN ZerosLike(in.y)
    ELSE [IncomLDL_loop(n - 1, in) EXCEPT ![n] = IncomLDL_row(n, in)]

\* np.linalg.pinv(X' X) @ X' @ M for a single feature column X (line 34):
\* X'X is the number sum(x_i^2), its pseudo-inverse the reciprocal, or 0 for 0.
IncomLDL_W(X, M) ==
    LET n == Len(X)
        s == SumOver(1..n, [i \in 1..n |-> X[i] * X[i]])
        XtM(j) == LET add[i \in 0..n] ==
                          IF i = 0 THEN Rat(0, 1) ELSE RatAdd(add[i - 1], RatScale(X[i], M[i][j]))
                  IN  add[n]
    IN  [j \in 1..Len(M[1]) |->
            IF s = 0 THEN Rat(0, 1) ELSE Rat(XtM(j)[1], XtM(j)[2] * s)]

\* The whole of _update_W, as written: the loop in order, then W.
IncomLDL_update_W(in) == IncomLDL_W(in.X, IncomLDL_loop(Len(in.X), in))

----------------------------------------------------------------------------
(* SpecQP: one _update_W call whose per-sample programs are solved in any  *)
(* order, then W is assigned.                                              *)

NRows == 2

QPLabels == {1, 2}

\* What a sample's row may hold: a mask row, a label distribution with the
\* unobserved entries zeroed, and one of two (Z, V) rows.
QPRowKinds ==
    {[mask |-> m, y |-> [j \in QPLabels |-> d[j] * m[j]], Z |-> zv[1], V |-> zv[2]] :
        m \in [QPLabels -> {0, 1}],
        d \in {[j \in QPLabels |-> IF j = 1 THEN QPUnit ELSE 0],
               [j \in QPLabels |-> QPUnit \div 2]},
        zv \in {<<[j \in QPLabels |-> 0], [j \in QPLabels |-> 0]>>,
                <<[j \in QPLabels |-> IF j = 1 THEN 0 ELSE QPUnit],
                  [j \in QPLabels |-> IF j = 1 THEN 1 ELSE -1]>>}}

QPInit ==
    /\ \E rows \in [1..NRows -> QPRowKinds] : \E rho \in {1, 2} :
          qp_in = [X    |-> [i \in 1..NRows |-> i - 1],
                   y    |-> [i \in 1..NRows |-> rows[i].y],
                   mask |-> [i \in 1..NRows |-> rows[i].mask],
                   Z    |-> [i \in 1..NRows |-> rows[i].Z],
                   V    |-> [i \in 1..NRows |-> rows[i].V],
                   rho  |-> rho]
    /\ qp_M = ZerosLike([i \in 1..NRows |-> [j \in QPLabels |-> 0]])
    /\ qp_solved = {}
    /\ qp_W = <<>>
    /\ ProjIdle
    /\ BinIdle
    /\ RPropIdle
    /\ FitIdle

\* One pass of the loop body, for any sample not solved yet.
SolveRow(i) ==
    /\ qp_W = <<>>
    /\ i \notin qp_solved
    /\ qp_M' = [qp_M EXCEPT ![i] = IncomLDL_row(i, qp_in)]
    /\ qp_solved' = qp_solved \cup {i}
    /\ UNCHANGED <<qp_in, qp_W, projVars, binVars, rpVars, fitVars>>

\* Line 34, once every sample is solved.
AssignW ==
    /\ qp_W = <<>>
    /\ qp_solved = 1..NRows
    /\ qp_W' = IncomLDL_W(qp_in.X, qp_M)
    /\ UNCHANGED <<qp_in, qp_M, qp_solved, projVars, binVars, rpVars, fitVars>>

QPNext == (\E i \in 1..NRows : SolveRow(i)) \/ AssignW

SpecQP == QPInit /\ [][QPNext]_vars

----------------------------------------------------------------------------
(* SpecProj: proj applied to a matrix, and to its own result.              *)

NCols == 2

\* Entries of the input: negative, zero, fractions, and a magnitude past
\* the significand, 2^(Prec+1).
ProjEntries ==
    {-One, 0, One \div 4, One \div 2, (3 * One) \div 4, One, 2 * One,
     Pow2(Prec + 1) * One}

ProjRowCounts == {1, 2}

ProjInit ==
    /\ \E n \in ProjRowCounts : \E c \in 1..NCols :
          pj_Y \in [1..n -> [1..c -> ProjEntries]]
    /\ pj_out = <<>>
    /\ pj_out2 = <<>>
    /\ pj_pc = "in"
    /\ BinIdle
    /\ RPropIdle
    /\ QPIdle
    /\ FitIdle

Project ==
    /\ pj_pc = "in"
    /\ pj_out' = proj(pj_Y)
    /\ pj_pc' = "once"
    /\ UNCHANGED <<pj_Y, pj_out2, binVars, rpVars, qpVars, fitVars>>

ProjectAgain ==
    /\ pj_pc = "once"
    /\ pj_out2' = proj(pj_out)
    /\ pj_pc' = "twice"
    /\ UNCHANGED <<pj_Y, pj_out, binVars, rpVars, qpVars, fitVars>>

ProjNext == Project \/ ProjectAgain

SpecProj == ProjInit /\ [][ProjNext]_vars

----------------------------------------------------------------------------
(* Real numbers met by WInLDL's confidence weights: a rational, a power    *)
(* base^exp with rational base and exponent (np.exp2, np.power), or NaN.   *)

NaN == [kind |-> "nan", base |-> <<0, 1>>, exp |-> <<0, 1>>]

Num(r) == [kind |-> "num", base |-> r, exp |-> <<1, 1>>]

PowR(b, e) == [kind |-> "pow", base |-> b, exp |-> e]

\* An unevaluated sum of two non-zero reals that are not both rational.
SumR(u, v) == [kind |-> "sum", base |-> <<u.base, u.exp>>, exp |-> <<v.base, v.exp>>]

IsNaN(u) == u.kind = "nan"

\* u * m for a mask entry m in {0, 1}: NaN * 0 is NaN, any other u * 0 is 0.
RealTimesMask(u, m) == IF IsNaN(u) THEN NaN ELSE IF m = 0 THEN Num(<<0, 1>>) ELSE u

\* u + v
RealAdd(u, v) ==
    IF IsNaN(u) \/ IsNaN(v) THEN NaN
    ELSE IF u = Num(<<0, 1>>) THEN v
    ELSE IF v = Num(<<0, 1>>) THEN u
    ELSE IF u.kind = "num" /\ v.kind = "num" THEN Num(RatAdd(u.base, v.base))
    ELSE SumR(u, v)

\* np.exp2(x) for a rational x
NpExp2(x) == PowR(<<2, 1>>, x)

\* np.power(a, e) for a rational a > 0: pow(1, NaN) is 1, pow(a, NaN) is NaN.
NpPower(a, e) ==
    IF IsNaN(e) THEN (IF a = <<1, 1>> THEN Num(<<1, 1>>) ELSE NaN)
    ELSE PowR(a, e.base)

----------------------------------------------------------------------------
(* The ADMM engine and its two strategies.  W, Z and V are followed by     *)
(* their data flow, not their numbers: a matrix is the cycle (the value of *)
(* the iteration counter) in which it was written, -1 for its start-up     *)
(* value, and the matrices, with their cycles, it was computed from.       *)

\* Label values are in halves: 1.0 is YUnit.
YUnit == Pow2(1)

Labels == {1, 2}

NoMatrix == [cycle |-> -2, from |-> {}]

StartUp == [cycle |-> -1, from |-> {}]

Written(cycle, from) == [cycle |-> cycle, from |-> from]

Read(name, m) == <<name, m.cycle>>

\* An instance before any fit: no attribute set (a number not set is 0).
Unset ==
    [alpha |-> 0, rho |-> 0, max_iterations |-> 0, current_iteration |-> 0,
     y |-> <<>>, mask |-> <<>>, avg |-> <<>>, Q1 |-> <<>>, Q2 |-> <<>>, Q |-> <<>>,
     W |-> NoMatrix, Z |-> NoMatrix, V |-> NoMatrix]

\* IncomLDL._update_W (_incomplete.py 18-34): W from mask, y, V, Z, rho, X.
IncomLDL_update_W_flow(s) ==
    [s EXCEPT !.W = Written(s.current_iteration, {Read("Z", s.Z), Read("V", s.V)})]

\* IncomLDL._update_Z (_incomplete.py 36-39): Z = svt(X W + V / rho, alpha / rho).
IncomLDL_update_Z(s) ==
    [s EXCEPT !.Z = Written(s.current_iteration, {Read("W", s.W), Read("V", s.V)})]

\* WInLDL._update_W (_incomplete.py 59-63): W from X and Z - V / rho.
WInLDL_update_W(s) ==
    [s EXCEPT !.W = Written(s.current_iteration, {Read("Z", s.Z), Read("V", s.V)})]

\* WInLDL._update_Q (_incomplete.py 72-75)
WInLDL_update_Q(s) ==
    LET a  == Rat(s.max_iterations + s.current_iteration, s.max_iterations)
        Q2 == [i \in 1..Len(s.y) |-> [j \in Labels |->
                  RealTimesMask(NpPower(a, s.avg[j]), 1 - s.mask[i][j])]]
    IN  [s EXCEPT !.Q2 = Q2,
                  !.Q = [i \in 1..Len(s.y) |-> [j \in Labels |->
                            RealAdd(s.Q1[i][j], Q2[i][j])]]]

WInLDL_update_Z_StaleW(s) ==
    LET q == WInLDL_update_Q(s)
    IN  [q EXCEPT !.Z = Written(s.current_iteration,
                                {<<"W", s.W.cycle - 1>>, Read("V", s.V)})]

\* WInLDL._update_Z (_incomplete.py 65-70): _update_Q first, then Z from
\* X W, V, Q, y, the mask and rho, through proj.
WInLDL_update_Z(s) ==
    LET q == WInLDL_update_Q(s)
    IN  [q EXCEPT !.Z = Written(s.current_iteration, {Read("W", s.W), Read("V", s.V)})]

\* WInLDL._before_train (_incomplete.py 77-79)
WInLDL_before_train(s) ==
    LET n == Len(s.y)
        total(j) == SumOver(1..n, [i \in 1..n |-> s.y[i][j]])
        nonzero(j) == Cardinality({i \in 1..n : s.y[i][j] # 0})
    IN  [s EXCEPT
            \* 0 / 0 is NaN
            !.avg = [j \in Labels |->
                        IF nonzero(j) = 0 THEN NaN
                        ELSE Num(Rat(total(j), YUnit * nonzero(j)))],
            !.Q1 = [i \in 1..n |-> [j \in Labels |->
                        RealTimesMask(NpExp2(Rat(YUnit - s.y[i][j], YUnit)),
                                      s.mask[i][j])]]]

\* The engine's dual update, V <- V + rho * (X W - Z).
BaseADMM_update_V(s) ==
    [s EXCEPT !.V = Written(s.current_iteration,
                            {Read("V", s.V), Read("W", s.W), Read("Z", s.Z)})]

\* The engine's check of a fit call's arguments: X, y and the mask have the
\* same number of rows, and rho is positive.
ValidInput(args) ==
    /\ args.X_rows = Len(args.y)
    /\ Len(args.mask) = Len(args.y)
    /\ args.rho > 0

\* The engine's fit: InvalidInput before anything is touched, else the
\* arguments stored, the counter at 0, W, Z, V at their start-up values and
\* the strategy's _before_train run.
BaseADMM_fit(class, s, args) ==
    IF ~ValidInput(args) THEN [raised |-> TRUE, self |-> s]
    ELSE LET t == [s EXCEPT !.rho = args.rho,
                            !.max_iterations = args.max_iterations,
                            !.current_iteration = 0,
                            !.y = args.y, !.mask = args.mask,
                            !.avg = <<>>, !.Q1 = <<>>, !.Q2 = <<>>, !.Q = <<>>,
                            !.W = StartUp, !.Z = StartUp, !.V = StartUp]
         IN  [raised |-> FALSE,
              self |-> IF class = "WInLDL" THEN WInLDL_before_train(t) ELSE t]

\* IncomLDL.fit (_incomplete.py 41-43): _alpha is assigned, then the engine's fit.
IncomLDL_fit(s, args) == BaseADMM_fit("IncomLDL", [s EXCEPT !.alpha = args.alpha], args)

\* WInLDL.fit (_incomplete.py 81-82)
WInLDL_fit(s, args) == BaseADMM_fit("WInLDL", s, args)

\* The engine leaves the loop when the counter reaches the maximum.
BudgetSpentOneEarly(s) == s.current_iteration + 1 >= s.max_iterations

BudgetSpent(s) == s.current_iteration >= s.max_iterations

----------------------------------------------------------------------------
(* Spec: an instance of either class, fitted any number of times.          *)

NSamples == 2

MaxIterations == 2

\* rho of a valid call (WInLDL.fit's default).
DefaultRho == 2

\* A sample's row: a mask row and a label distribution, its unobserved
\* entries holding the zero placeholder.
FitRows ==
    {[mask |-> m, y |-> [j \in Labels |-> d[j] * m[j]]] :
        m \in [Labels -> {0, 1}],
        d \in {[j \in Labels |-> IF j = 1 THEN YUnit ELSE 0],
               [j \in Labels |-> YUnit \div 2]}}

\* The other samples are all alike: fully observed, or not observed at all.
OtherRows ==
    {[mask |-> [j \in Labels |-> m], y |-> [j \in Labels |-> m * (YUnit \div 2)]] :
        m \in {0, 1}}

FitData ==
    {[i \in 1..NSamples |-> IF i = 1 THEN r ELSE o] : r \in FitRows, o \in OtherRows}

ArgsOf(data, X_rows, rho, alpha, max_iterations) ==
    [X_rows |-> X_rows,
     y |-> [i \in 1..Len(data) |-> data[i].y],
     mask |-> [i \in 1..Len(data) |-> data[i].mask],
     rho |-> rho, alpha |-> alpha, max_iterations |-> max_iterations]

\* alpha, in thousandths, matters to IncomLDL alone.
Alphas(class) == IF class = "IncomLDL" THEN {1, 2} ELSE {1}

ValidArgs(class) ==
    {ArgsOf(data, NSamples, DefaultRho, alpha, T) :
        data \in FitData, alpha \in Alphas(class), T \in 1..MaxIterations}

\* A row too many in X, or a rho that is not positive.
InvalidArgs(class) ==
    LET data == CHOOSE d \in FitData :
                    \A i \in 1..NSamples : \A j \in Labels : d[i].y[j] = YUnit \div 2
    IN  {ArgsOf(data, NSamples + 1, DefaultRho, alpha, 1) : alpha \in Alphas(class)}
            \cup {ArgsOf(data, NSamples, 0, alpha, 1) : alpha \in Alphas(class)}

Init ==
    /\ cls \in {"IncomLDL", "WInLDL"}
    /\ self = Unset
    /\ phase = "Uninitialized"
    /\ pc = "-"
    /\ outcome = "none"
    /\ pre = Unset
    /\ Qprev = <<>>
    /\ ProjIdle
    /\ BinIdle
    /\ RPropIdle
    /\ QPIdle

\* fit(X, y, mask, ...) on an instance that is not being fitted.
Fit ==
    /\ phase \in {"Uninitialized", "Done"}
    /\ \E args \in ValidArgs(cls) \cup InvalidArgs(cls) :
          LET r == IF cls = "IncomLDL" THEN IncomLDL_fit(self, args)
                   ELSE WInLDL_fit(self, args)
          IN  /\ self' = r.self
              /\ outcome' = IF r.raised THEN "InvalidInput" ELSE "ok"
              /\ phase' = IF r.raised THEN phase ELSE "Iterating"
              /\ pc' = IF r.raised THEN pc ELSE "W"
    /\ pre' = self
    /\ Qprev' = <<>>
    /\ UNCHANGED <<cls, projVars, binVars, rpVars, qpVars>>

UpdateW ==
    /\ phase = "Iterating"
    /\ pc = "W"
    /\ self' = IF cls = "IncomLDL" THEN IncomLDL_update_W_flow(self)
               ELSE WInLDL_update_W(self)
    /\ pc' = "Z"
    /\ UNCHANGED <<cls, phase, outcome, pre, Qprev, projVars, binVars, rpVars, qpVars>>

UpdateZ ==
    /\ phase = "Iterating"
    /\ pc = "Z"
    /\ self' = IF cls = "IncomLDL" THEN IncomLDL_update_Z(self)
               ELSE WInLDL_update_Z(self)
    /\ Qprev' = IF cls = "WInLDL" THEN self.Q ELSE Qprev
    /\ pc' = "V"
    /\ UNCHANGED <<cls, phase, outcome, pre, projVars, binVars, rpVars, qpVars>>

\* The dual update ends the cycle: the counter goes up by one, and the loop
\* ends when the budget is spent.
UpdateV ==
    /\ phase = "Iterating"
    /\ pc = "V"
    /\ LET s == BaseADMM_update_V(self)
           t == [s EXCEPT !.current_iteration = s.current_iteration + 1]
       IN  /\ self' = t
           /\ phase' = IF BudgetSpent(t) THEN "Done" ELSE "Iterating"
           /\ pc' = IF BudgetSpent(t) THEN "-" ELSE "W"
    /\ UNCHANGED <<cls, outcome, pre, Qprev, projVars, binVars, rpVars, qpVars>>

Next == Fit \/ UpdateW \/ UpdateZ \/ UpdateV

Spec == Init /\ [][Next]_vars

\* A fit call that has begun runs on: the loop has no wait in it.
FairSpec == Spec /\ WF_vars(UpdateW) /\ WF_vars(UpdateZ) /\ WF_vars(UpdateV)

----------------------------------------------------------------------------
(* Claims about proj (SpecProj)                                            *)

\* A row on the probability simplex, to within tol quanta.
OnSimplex(row, tol) ==
    /\ \A j \in 1..Len(row) : row[j] >= 0
    /\ Abs(SumSeq(row) - One) <= tol

\* Two rows equal to within tol quanta in every entry.
NearRows(r1, r2, tol) ==
    /\ Len(r1) = Len(r2)
    /\ \A j \in 1..Len(r1) : Abs(r1[j] - r2[j]) <= tol

\* The tolerance granted to a row: one quantum per entry.
ProjTol(row) == Len(row)

\* C1: for every input matrix with at least one column and finite entries,
\* every row of proj's result has only non-negative entries and sums to 1
\* (here: to within the floating tolerance ProjTol).
C1_ProjRowsOnSimplex ==
    pj_pc \in {"once", "twice"} =>
        \A i \in 1..Len(pj_out) : OnSimplex(pj_out[i], ProjTol(pj_out[i]))

\* C2: proj is idempotent: a row that is already a valid distribution comes
\* back unchanged, and proj(proj(Y)) = proj(Y) for every input Y (here: to
\* within the floating tolerance ProjTol).
C2_ProjIdempotent ==
    /\ pj_pc \in {"once", "twice"} =>
          \A i \in 1..Len(pj_Y) :
              OnSimplex(pj_Y[i], 0) => NearRows(pj_out[i], pj_Y[i], ProjTol(pj_Y[i]))
    /\ pj_pc = "twice" =>
          \A i \in 1..Len(pj_out) : NearRows(pj_out2[i], pj_out[i], ProjTol(pj_out[i]))

----------------------------------------------------------------------------
(* Claims about binaryzation (SpecBin)                                     *)

\* The number of ones in a 0/1 row.
OnesIn(row) == Cardinality({j \in 1..Len(row) : row[j] = 1})

\* The ones of res sit on k largest entries of row: no entry left out is
\* larger than an entry taken.
OnLargest(row, res) ==
    \A j1, j0 \in 1..Len(row) : (res[j1] = 1 /\ res[j0] = 0) => row[j1] >= row[j0]

\* param is an integer k (a Python int; bool is one) with 1 <= k < number_of_labels.
ValidTopK(param, c) == IsInstanceInt(param) /\ 1 <= param.v /\ param.v < c

\* C10: 'topk' with an integer k, 1 <= k < number_of_labels, returns a 0/1
\* matrix of the input's shape with exactly k ones in every row, on k largest
\* entries of the row (ties included); any other non-None param for 'topk',
\* and any method other than 'threshold' or 'topk', raises ValueError and
\* returns nothing.
C10_TopKSelectsKLargest ==
    bz_pc \in {"returned", "ValueError"} =>
        /\ (bz_method = "topk" /\ ValidTopK(bz_param, BinCols)) =>
              /\ bz_pc = "returned"
              /\ Len(bz_res) = Len(bz_y)
              /\ \A i \in 1..Len(bz_y) :
                    /\ DOMAIN bz_res[i] = DOMAIN bz_y[i]
                    /\ \A j \in DOMAIN bz_res[i] : bz_res[i][j] \in {0, 1}
                    /\ OnesIn(bz_res[i]) = bz_param.v
                    /\ OnLargest(bz_y[i], bz_res[i])
        /\ (bz_method = "topk" /\ bz_param # PyNone /\ ~ValidTopK(bz_param, BinCols)) =>
              (bz_pc = "ValueError" /\ bz_res = <<>>)
        /\ bz_method \notin {"threshold", "topk"} =>
              (bz_pc = "ValueError" /\ bz_res = <<>>)

\* Witness of C10: a two-row matrix whose first row has a tie across the cut,
\* binarized with topk, k = 2.
C10_Witness ==
    /\ bz_pc = "returned"
    /\ bz_method = "topk"
    /\ bz_param = PyInt(2)
    /\ Len(bz_y) = 2
    /\ \A j \in 1..BinCols : bz_y[1][j] = 1

----------------------------------------------------------------------------
(* Claims about RProp (SpecRProp)                                          *)

\* C8: RProp keeps per-parameter step sizes across apply_gradients calls:
\* for each entry, when the gradient of this call and the gradient remembered
\* from the previous call have the same sign, the step size used is the
\* previous one times scale_up (capped at max_alpha); when they have opposite
\* signs, the previous one times scale_down (floored at min_alpha); otherwise
\* it is unchanged.
C8_RPropAdaptsStepSize ==
    rp_calls >= 2 =>
        \A k \in 1..NParams :
            LET sign == rp_grad[k] * rp_before[k].old_grad
                prev == rp_before[k].alpha
            IN  rp_last[k].alpha =
                    IF sign > 0 THEN Min(ScaleUp(prev), MaxAlpha)
                    ELSE IF sign < 0 THEN Max(ScaleDown(prev), MinAlpha)
                    ELSE prev

----------------------------------------------------------------------------
(* Claims about IncomLDL._update_W (SpecQP)                                *)

\* The attributes cut down to sample i alone.
OnlyRow(i, in) ==
    [X |-> <<in.X[i]>>, y |-> <<in.y[i]>>, mask |-> <<in.mask[i]>>,
     Z |-> <<in.Z[i]>>, V |-> <<in.V[i]>>, rho |-> in.rho]

\* C7: the per-sample quadratic programs of IncomLDL._update_W are
\* independent: (P_i, q_i) is computed from row i of the mask, y, Z, V and
\* from rho alone; solving row i writes row i of M alone; so solving the rows
\* in any order gives the M, and the W, of the sequential loop.
C7_RowsIndependent ==
    qp_W # <<"idle">> =>
        /\ \A i \in 1..NRows :
              LET alone == OnlyRow(i, qp_in)
              IN  /\ IncomLDL_P(i, qp_in.mask, qp_in.rho)
                        = IncomLDL_P(1, alone.mask, alone.rho)
                  /\ IncomLDL_q(i, qp_in.mask, qp_in.y, qp_in.Z, qp_in.V, qp_in.rho)
                        = IncomLDL_q(1, alone.mask, alone.y, alone.Z, alone.V, alone.rho)
        /\ \A i \in 1..NRows :
              qp_M[i] = IF i \in qp_solved
                        THEN IncomLDL_loop(NRows, qp_in)[i]
                        ELSE ZerosLike(qp_in.y)[i]
        /\ qp_W # <<>> => qp_W = IncomLDL_update_W(qp_in)

\* Witness of C7: the last sample solved first, the first still unsolved, the
\* two with different masks and (Z, V) rows.
C7_Witness ==
    /\ qp_W = <<>>
    /\ qp_solved = {NRows}
    /\ qp_in.mask[1] # qp_in.mask[NRows]
    /\ qp_in.Z[1] # qp_in.Z[NRows]
    /\ qp_M[NRows] # ZerosLike(qp_in.y)[NRows]

----------------------------------------------------------------------------
(* Claims about the ADMM engine and its strategies (Spec, FairSpec)        *)

Fitting == phase = "Iterating"

\* The cycle under way: the value of the iteration counter.
Cycle == self.current_iteration

\* What the three matrices must be, by data flow, once written in cycle k.
WOf(k) == Written(k, {<<"Z", k - 1>>, <<"V", k - 1>>})

ZOf(k) == Written(k, {<<"W", k>>, <<"V", k - 1>>})

VOf(k) == Written(k, {<<"V", k - 1>>, <<"W", k>>, <<"Z", k>>})

\* The matrices as cycle k - 1 left them (the start-up values for k = 0).
LeftBy(k, name) ==
    IF k = 0 THEN StartUp
    ELSE IF name = "W" THEN WOf(k - 1)
    ELSE IF name = "Z" THEN ZOf(k - 1)
    ELSE VOf(k - 1)

InOrder ==
    /\ pc = "W" => /\ self.W = LeftBy(Cycle, "W")
                   /\ self.Z = LeftBy(Cycle, "Z")
                   /\ self.V = LeftBy(Cycle, "V")
    /\ pc = "Z" => /\ self.W = WOf(Cycle)
                   /\ self.Z = LeftBy(Cycle, "Z")
                   /\ self.V = LeftBy(Cycle, "V")
    /\ pc = "V" => /\ self.W = WOf(Cycle)
                   /\ self.Z = ZOf(Cycle)
                   /\ self.V = LeftBy(Cycle, "V")

\* A step of a fit under way: W, then Z, then V, the counter going up by
\* one with V and with nothing else.
CycleStep ==
    Fitting =>
        \/ pc = "W" /\ pc' = "Z" /\ Cycle' = Cycle /\ Fitting'
        \/ pc = "Z" /\ pc' = "V" /\ Cycle' = Cycle /\ Fitting'
        \/ pc = "V" /\ Cycle' = Cycle + 1 /\ self'.V = VOf(Cycle)
                    /\ (Fitting' => pc' = "W")

\* A step that begins a fit starts the counter at 0 and the cycle at W.
FitStart == (~Fitting /\ Fitting') => (Cycle' = 0 /\ pc' = "W")

\* C3: within a fit call every cycle runs the W update, then the Z update,
\* then the dual update of V, each on what the step before it in the same
\* cycle has just written (W of cycle k from the Z and V cycle k - 1 left, Z
\* of cycle k from the W of cycle k, V from the W and Z of cycle k); the
\* counter is 0 at fit start and goes up by one with each completed cycle and
\* at no other step; no update of one cycle falls between those of another.
C3_CyclesInOrder ==
    /\ [](Fitting => InOrder)
    /\ [][CycleStep /\ FitStart]_vars

\* Witness of C3: the second cycle of a WInLDL fit, its W and Z written.
C3_Witness ==
    /\ cls = "WInLDL"
    /\ Fitting
    /\ Cycle = 1
    /\ pc = "V"
    /\ self.Z = ZOf(1)

\* C4: a fit call with a positive max_iterations ends, and it is fitting
\* exactly as long as the counter is below max_iterations: it ends with the
\* counter equal to max_iterations, neither earlier nor after more cycles.
C4_EndsAtMaxIterations ==
    /\ [](Fitting => Cycle < self.max_iterations)
    /\ [](phase = "Done" => Cycle = self.max_iterations)
    /\ [][(Fitting /\ ~Fitting') =>
            (phase' = "Done" /\ Cycle' = self.max_iterations)]_vars
    /\ (Fitting ~> phase = "Done")

\* Witness of C4: a fit with more than one cycle that has ended.
C4_Witness ==
    /\ phase = "Done"
    /\ outcome = "ok"
    /\ self.max_iterations = MaxIterations
    /\ Cycle = MaxIterations
    /\ self.V = VOf(MaxIterations - 1)

\* C5: when fit is called with invalid input, InvalidInput is raised and no
\* attribute of the instance has been modified by the call: alpha, rho, W, Z,
\* V and all the others are those from before the call.
C5_InvalidFitChangesNothing ==
    outcome = "InvalidInput" => self = pre

\* Label column j is unobserved in every sample, holding the placeholder.
AllMissing(j) ==
    \A i \in 1..Len(self.y) : self.mask[i][j] = 0 /\ self.y[i][j] = 0

Fitted == cls = "WInLDL" /\ phase \in {"Iterating", "Done"}

\* C6: when WInLDL is fitted on data with a label column that is entirely
\* unobserved, the column's average computed in _before_train and the
\* column's weights Q of every iteration are finite: none is NaN.
C6_AllMissingColumnFinite ==
    Fitted =>
        \A j \in Labels :
            AllMissing(j) =>
                /\ ~IsNaN(self.avg[j])
                /\ self.Q # <<>> => \A i \in 1..Len(self.y) : ~IsNaN(self.Q[i][j])

Zero == Num(<<0, 1>>)

\* u = v as floats compare: NaN equals nothing.
RealEq(u, v) == ~IsNaN(u) /\ ~IsNaN(v) /\ u = v

\* base of u seen as a power with a non-negative exponent (1 is 1^e).
BaseOf(u) == IF u.kind = "pow" THEN u.base ELSE <<1, 1>>

\* u <= v as floats compare, for weights of one entry in two iterations:
\* zero, one, or powers with the same non-negative exponent.
RealLeq(u, v) ==
    /\ ~IsNaN(u)
    /\ ~IsNaN(v)
    /\ \/ u = v
       \/ u = Zero /\ v.kind \in {"num", "pow"}
       \/ /\ u # Zero /\ v # Zero
          /\ u.kind \in {"num", "pow"} /\ v.kind \in {"num", "pow"}
          /\ (u.kind = "pow" /\ v.kind = "pow") => u.exp = v.exp
          /\ BaseOf(u)[1] * BaseOf(v)[2] <= BaseOf(v)[1] * BaseOf(u)[2]

\* C9: in every iteration of WInLDL, Q2 is zero on every observed entry and
\* Q1 is zero on every unobserved entry; the weight Q of an observed entry is
\* the same as in the iteration before, and the weight of an unobserved entry
\* is not below that of the iteration before.
C9_WeightsByMask ==
    (Fitted /\ self.Q # <<>>) =>
        \A i \in 1..Len(self.y) : \A j \in Labels :
            IF self.mask[i][j] = 1
            THEN /\ RealEq(self.Q2[i][j], Zero)
                 /\ Qprev # <<>> => RealEq(self.Q[i][j], Qprev[i][j])
            ELSE /\ RealEq(self.Q1[i][j], Zero)
                 /\ Qprev # <<>> => RealLeq(Qprev[i][j], self.Q[i][j])

====
